---- MODULE Spec2Model ----
(***************************************************************************)
(* Model of sample-data/generate_sample_data.py: the synthetic FX order    *)
(* generator (generate_order and its helpers) and the batch driver main(). *)
(*                                                                         *)
(* Conventions                                                             *)
(*  - Amounts exceed 32 bits (up to 10^12 cents, products up to 10^21), so *)
(*    a Python int is the sequence of its digits in base 10^4, least       *)
(*    significant first, without high zeros (zero is << >>).               *)
(*  - A string is a sequence of one-character strings.                     *)
(*  - A float rate is kept as the integer rate * 10^7 (it is the result of *)
(*    round(x, 7)); exchange-rate table entries are kept in hundredths and *)
(*    the uniform variation in millionths.                                 *)
(*  - A naive datetime is a number of ticks since 1970-01-01 00:00, with   *)
(*    TicksPerDay ticks a day; a timedelta of n days is n * TicksPerDay.   *)
(*  - The inputs of one generate_order call are its random draws, in the   *)
(*    order the code makes them, the two readings of datetime.now() and    *)
(*    the rounding of the one float product whose integer part is kept.    *)
(***************************************************************************)
EXTENDS Integers, Sequences, FiniteSets, TLC

VARIABLES
    clock,      \* the wall clock datetime.now() reads, in ticks
    pc,         \* main()'s position
    orders,     \* main(): the list the comprehension builds
    inputs,     \* per element of orders, the inputs its generate_order call consumed
    df,         \* main(): the DataFrame's rows (None before it is built)
    file        \* the rows written to OUTPUT_FILE (None while nothing was written)

vars == <<clock, pc, orders, inputs, df, file>>

\* None: an absent value (no string of this model is empty, and NUM_ROWS > 0)
None == << >>

-----------------------------------------------------------------------------
(* Bounds of the model *)

\* resolution of the clock: ticks in a day
TicksPerDay == 2
\* how many ticks the clock may advance between two consecutive readings
MaxAdvance == 1
\* how many values next to each end of a randint range are drawn
Spread == 1

-----------------------------------------------------------------------------
(* Python ints of arbitrary size *)

\* an int is the sequence of its digits in this base
Base == 10000

Tl(a) == IF a = << >> THEN << >> ELSE Tail(a)

Hd(a) == IF a = << >> THEN 0 ELSE Head(a)

RECURSIVE BigNorm(_)
BigNorm(a) ==
    IF a = << >> THEN << >>
    ELSE IF a[Len(a)] = 0 THEN BigNorm(SubSeq(a, 1, Len(a) - 1))
    ELSE a

RECURSIVE BigOfNat(_)
BigOfNat(n) == IF n = 0 THEN << >> ELSE <<n % Base>> \o BigOfNat(n \div Base)

RECURSIVE BigToNat(_)
BigToNat(a) == IF a = << >> THEN 0 ELSE Head(a) + Base * BigToNat(Tail(a))

RECURSIVE BigAddC(_, _, _)
BigAddC(a, b, c) ==
    IF a = << >> /\ b = << >> THEN BigOfNat(c)
    ELSE LET s == Hd(a) + Hd(b) + c
         IN  <<s % Base>> \o BigAddC(Tl(a), Tl(b), s \div Base)

BigAdd(a, b) == BigAddC(a, b, 0)

\* a - b for a >= b
RECURSIVE BigSubB(_, _, _)
BigSubB(a, b, borrow) ==
    IF a = << >> THEN << >>
    ELSE LET s == Hd(a) - Hd(b) - borrow
         IN  IF s < 0 THEN <<s + Base>> \o BigSubB(Tl(a), Tl(b), 1)
             ELSE <<s>> \o BigSubB(Tl(a), Tl(b), 0)

BigSub(a, b) == BigNorm(BigSubB(a, b, 0))

\* a * k for 0 <= k < 200000
RECURSIVE BigMulC(_, _, _)
BigMulC(a, k, c) ==
    IF a = << >> THEN BigOfNat(c)
    ELSE LET s == Head(a) * k + c
         IN  <<s % Base>> \o BigMulC(Tail(a), k, s \div Base)

BigMulSmall(a, k) == IF k = 0 THEN << >> ELSE BigMulC(a, k, 0)

\* a * Base
BigShl(a) == IF a = << >> THEN << >> ELSE <<0>> \o a

\* floor(a / Base)
BigShr(a) == Tl(a)

\* the digits of the number whose digit sums, not yet carried, are sums
RECURSIVE Carry(_, _)
Carry(sums, c) ==
    IF sums = << >> THEN BigOfNat(c)
    ELSE <<(Head(sums) + c) % Base>> \o Carry(Tail(sums), (Head(sums) + c) \div Base)

\* the sum of f[i] over i in lo..hi (at most four terms)
Sum4(f, lo, hi) ==
    (IF lo <= hi THEN f[lo] ELSE 0) + (IF lo + 1 <= hi THEN f[lo + 1] ELSE 0)
    + (IF lo + 2 <= hi THEN f[lo + 2] ELSE 0) + (IF lo + 3 <= hi THEN f[lo + 3] ELSE 0)

\* a * b for b of at most four digits (b < 10^16)
BigMul(a, b) ==
    IF b = << >> \/ a = << >> THEN << >>
    ELSE LET Max(x, y) == IF x >= y THEN x ELSE y
             Least(x, y) == IF x <= y THEN x ELSE y
             sums == [k \in 1..(Len(a) + Len(b) - 1) |->
                        LET lo == Max(1, k + 1 - Len(a))
                            hi == Least(Len(b), k)
                        IN  Sum4([j \in lo..hi |-> a[k + 1 - j] * b[j]], lo, hi)]
         IN  BigNorm(Carry(sums, 0))

\* quotient and remainder of a by k, 0 < k < 200000
RECURSIVE BigDivMod(_, _)
BigDivMod(a, k) ==
    IF a = << >> THEN [q |-> << >>, r |-> 0]
    ELSE LET hi  == BigDivMod(Tail(a), k)
             cur == hi.r * Base + Head(a)
         IN  IF hi.q = << >> /\ cur < k THEN [q |-> << >>, r |-> cur]
             ELSE [q |-> <<cur \div k>> \o hi.q, r |-> cur % k]

\* -1, 0, 1 as a < b, a = b, a > b
RECURSIVE BigCmp(_, _)
BigCmp(a, b) ==
    IF Len(a) < Len(b) THEN -1
    ELSE IF Len(a) > Len(b) THEN 1
    ELSE IF a = << >> THEN 0
    ELSE IF a[Len(a)] < b[Len(b)] THEN -1
    ELSE IF a[Len(a)] > b[Len(b)] THEN 1
    ELSE BigCmp(BigNorm(SubSeq(a, 1, Len(a) - 1)), BigNorm(SubSeq(b, 1, Len(b) - 1)))

BigLeq(a, b) == BigCmp(a, b) <= 0

-----------------------------------------------------------------------------
(* Configuration *)

NUM_ROWS == 2

CURRENCIES == <<"EUR", "USD", "CHF", "GBP", "DKK", "SEK", "NOK", "JPY">>

\* EXCHANGE_RATES, in hundredths
EXCHANGE_RATES ==
    [EUR |-> 100, USD |-> 105, CHF |-> 94, GBP |-> 86,
     DKK |-> 746, SEK |-> 1120, NOK |-> 1180, JPY |-> 16200]

\* EXCHANGE_RATES.get(currency, 1.0), in hundredths
ExchangeRateGet(currency) ==
    IF currency \in DOMAIN EXCHANGE_RATES THEN EXCHANGE_RATES[currency] ELSE 100

FX_ORDER_TYPES == <<"forward", "chain", "spot">>

\* in tenths
FX_ORDER_TYPE_WEIGHTS == <<3, 6, 1>>

MARKET_DIRECTIONS == <<"buy", "sell">>

STATUSES == <<"open", "closed_to_trading", "completed">>

\* in tenths
STATUS_WEIGHTS == <<5, 3, 2>>

LIQUIDITY_PROVIDERS == <<"SIVB", "RBS", "SEB", "BARC", "CITI", "HSBC">>

SIZE_TYPES == <<"small", "medium", "large", "very_large">>

\* in tenths
SIZE_TYPE_WEIGHTS == <<3, 4, 2, 1>>

\* the arguments of the four random.randint calls of generate_amount_cents:
\* 100_00, 50_000_00, 500_000_00, 5_000_000_00 and 100_000_000_00
AmountRange(size_type) ==
    IF size_type = "small" THEN <<BigOfNat(10000), BigOfNat(5000000)>>
    ELSE IF size_type = "medium" THEN <<BigOfNat(5000000), BigOfNat(50000000)>>
    ELSE IF size_type = "large" THEN <<BigOfNat(50000000), BigOfNat(500000000)>>
    ELSE <<BigOfNat(500000000), BigMulSmall(BigOfNat(100000000), 100)>>

\* string.ascii_uppercase + string.digits
ALPHABET ==
    <<"A", "B", "C", "D", "E", "F", "G", "H", "I", "J", "K", "L", "M",
      "N", "O", "P", "Q", "R", "S", "T", "U", "V", "W", "X", "Y", "Z",
      "0", "1", "2", "3", "4", "5", "6", "7", "8", "9">>

\* k of random.choices(..., k=8)
SuffixLen == 8

\* uniform(-0.02, 0.02), in millionths
VariationScale == 1000000

VariationMax == 20000

\* randint(0, 365) and randint(1, 365)
MaxDays == 365

-----------------------------------------------------------------------------
(* The random module: each operator is the set of values a call can return *)

Range(seq) == {seq[i] : i \in DOMAIN seq}

\* random.choices(population, weights=weights)[0]
Choices(population, weights) ==
    {population[i] : i \in {j \in DOMAIN population : weights[j] > 0}}

\* random.choice(seq), as the position chosen
ChoicePos(seq) == DOMAIN seq

\* random.randint(lo, hi): the values within Spread of either end
RandInt(lo, hi) == {x \in lo..hi : x - lo <= Spread \/ hi - x <= Spread}

\* random.randint(lo, hi) on big integers (hi - lo > Spread)
RandIntBig(lo, hi) ==
    {BigAdd(lo, BigOfNat(k)) : k \in 0..Spread} \cup {BigSub(hi, BigOfNat(k)) : k \in 0..Spread}

\* random.sample(seq, 2), as the two positions chosen
Sample2(seq) == {p \in (DOMAIN seq) \X (DOMAIN seq) : p[1] # p[2]}

\* random.choices(ALPHABET, k=SuffixLen): runs through the alphabet from a
\* starting letter with a fixed stride
SuffixChoices ==
    {[i \in 1..SuffixLen |-> ALPHABET[((start + i * stride) % Len(ALPHABET)) + 1]] :
        start \in {0, Len(ALPHABET) - 1}, stride \in 0..Spread}

\* random.randint(0, 365) of generate_dates
DaysAgoChoices == RandInt(0, MaxDays)

\* randint(0, 365) in place of randint(1, 365)
ValueDateOffsetFromZero == RandInt(0, MaxDays)

\* random.randint(1, 365) of generate_dates
ValueDateOffsetChoices == RandInt(1, MaxDays)

\* random.uniform(-0.02, 0.02), in millionths
VariationChoices == RandInt(-VariationMax, VariationMax) \cup {0}

-----------------------------------------------------------------------------
(* datetime: the calendar, strftime("%Y-%m-%d") and its parse *)

DIGITS == <<"0", "1", "2", "3", "4", "5", "6", "7", "8", "9">>

\* the proleptic Gregorian date <<year, month, day>> of a day number
\* (days since 1970-01-01)
CivilFromDays(days) ==
    LET z   == days + 719468
        era == z \div 146097
        doe == z - era * 146097
        yoe == (doe - doe \div 1460 + doe \div 36524 - doe \div 146096) \div 365
        doy == doe - (365 * yoe + yoe \div 4 - yoe \div 100)
        mp  == (5 * doy + 2) \div 153
        d   == doy - (153 * mp + 2) \div 5 + 1
        m   == IF mp < 10 THEN mp + 3 ELSE mp - 9
        y   == yoe + era * 400 + (IF m <= 2 THEN 1 ELSE 0)
    IN  <<y, m, d>>

\* the day number of the date <<year, month, day>>
DaysFromCivil(date) ==
    LET y   == IF date[2] <= 2 THEN date[1] - 1 ELSE date[1]
        era == y \div 400
        yoe == y - era * 400
        mp  == IF date[2] > 2 THEN date[2] - 3 ELSE date[2] + 9
        doy == (153 * mp + 2) \div 5 + date[3] - 1
        doe == yoe * 365 + yoe \div 4 - yoe \div 100 + doy
    IN  era * 146097 + doe - 719468

\* n in decimal, zero-padded to width characters
RECURSIVE Pad(_, _)
Pad(n, width) ==
    IF width = 0 THEN << >> ELSE Pad(n \div 10, width - 1) \o <<DIGITS[(n % 10) + 1]>>

\* datetime.strftime("%Y-%m-%d"): the time of day is dropped
strftime(datetime) ==
    LET date == CivilFromDays(datetime \div TicksPerDay)
    IN  Pad(date[1], 4) \o <<"-">> \o Pad(date[2], 2) \o <<"-">> \o Pad(date[3], 2)

RECURSIVE ParseInt(_)
ParseInt(chars) ==
    IF chars = << >> THEN 0
    ELSE 10 * ParseInt(SubSeq(chars, 1, Len(chars) - 1))
         + (CHOOSE n \in 0..9 : DIGITS[n + 1] = chars[Len(chars)])

\* pd.to_datetime(text).date(): the date <<year, month, day>> of "YYYY-MM-DD",
\* NaT for None
to_date(text) ==
    IF text = None THEN <<"NaT">>
    ELSE <<ParseInt(SubSeq(text, 1, 4)), ParseInt(SubSeq(text, 6, 7)),
           ParseInt(SubSeq(text, 9, 10))>>

\* the day number of a formatted date
DayOf(text) == DaysFromCivil(to_date(text))

-----------------------------------------------------------------------------
(* The generator's functions.  Each takes the values its random calls      *)
(* returned as arguments.                                                  *)

\* generate_reference with the two prefixes exchanged
generate_reference_swapped(order_type, suffix) ==
    IF order_type = "chain" THEN <<"K", "-">> \o suffix
    ELSE <<"K", "C", "H", "-">> \o suffix

\* generate_reference(order_type), suffix the result of random.choices
generate_reference(order_type, suffix) ==
    IF order_type = "chain" THEN <<"K", "C", "H", "-">> \o suffix
    ELSE <<"K", "-">> \o suffix

\* round() of the non-negative rational num / den (den < 200000) to the
\* nearest integer, ties to even
RoundDiv(num, den) ==
    LET dm == BigDivMod(num, den)
        up == BigAdd(dm.q, BigOfNat(1))
    IN  IF 2 * dm.r < den THEN dm.q
        ELSE IF 2 * dm.r > den THEN up
        ELSE IF Hd(dm.q) % 2 = 0 THEN dm.q ELSE up

\* generate_rate(buy_currency, sell_currency), variation the result of
\* random.uniform in millionths; the result is rate * 10^7
generate_rate(buy_currency, sell_currency, variation) ==
    IF buy_currency = sell_currency THEN 10000000
    ELSE LET buy_rate  == ExchangeRateGet(buy_currency)
             sell_rate == ExchangeRateGet(sell_currency)
             \* base_rate * (1 + variation) * 10^7 = scaled / buy_rate
             scaled    == BigMul(BigOfNat(sell_rate * 10),
                                    BigOfNat(VariationScale + variation))
         IN  BigToNat(RoundDiv(scaled, buy_rate))

\* the list without its filter
NonEurUnfiltered == CURRENCIES

\* the list [c for c in CURRENCIES if c != "EUR"]
NonEur == SelectSeq(CURRENCIES, LAMBDA c : c # "EUR")

\* the values random can hand generate_currency_pair: random.random() < 0.7,
\* then the position random.choice picks and random.random() < 0.5, or else
\* the positions random.sample picks
PairChoices ==
    {[involves_eur |-> TRUE, other |-> i, eur_first |-> b] :
        i \in ChoicePos(NonEur), b \in BOOLEAN}
    \cup {[involves_eur |-> FALSE, sample |-> p] : p \in Sample2(NonEur)}

\* generate_currency_pair()
generate_currency_pair(choice) ==
    IF choice.involves_eur
    THEN LET other == NonEur[choice.other]
         IN  IF choice.eur_first THEN <<"EUR", other>> ELSE <<other, "EUR">>
    ELSE <<NonEur[choice.sample[1]], NonEur[choice.sample[2]]>>

\* the values random can hand generate_amount_cents: the size type and the
\* result of the randint call of its branch
AmountChoices ==
    UNION {{[size_type |-> t, amount |-> a] :
                a \in RandIntBig(AmountRange(t)[1], AmountRange(t)[2])} :
           t \in Choices(SIZE_TYPES, SIZE_TYPE_WEIGHTS)}

\* generate_amount_cents(): random.randint(...) * 100
generate_amount_cents(choice) == BigMulSmall(choice.amount, 100)

\* the product with the rate left out
FloatProductNoRate(buy_amount_cents, rate, fp) ==
    BigMul(buy_amount_cents, BigOfNat(10000000))

\* buy_amount_cents * rate as the float the code gets, in units of 10^-7:
\* the exact product, or the exact product moved by the two roundings (of
\* rate to a double and of the product; each at most 2^-53 of the value)
FloatProduct(buy_amount_cents, rate, fp) ==
    LET exact == BigMul(buy_amount_cents, BigOfNat(rate))
        \* exact / 2^52 = exact / 8192^4
        err   == BigDivMod(BigDivMod(BigDivMod(BigDivMod(exact, 8192).q, 8192).q,
                                     8192).q, 8192).q
    IN  IF fp < 0 THEN BigSub(exact, err)
        ELSE IF fp > 0 THEN BigAdd(exact, err)
        ELSE exact

\* the integer part and the fraction (in units of 10^-7) of a non-negative
\* float x given in units of 10^-7
Split(x) ==
    LET dm == BigDivMod(BigShr(x), 1000)
    IN  [int |-> dm.q, frac |-> dm.r * Base + Hd(x)]

\* int(x): truncation
int(x) == Split(x).int

Min(a, b) == IF a <= b THEN a ELSE b

\* max_exec_days not bounded by the age of the order
max_exec_days_unbounded(days_ago, now1, now2) == MaxDays

\* max_exec_days of generate_dates: creation_date comes from the first
\* reading of the clock, the second term from the second reading
max_exec_days(days_ago, now1, now2) ==
    LET creation_date == now1 - days_ago * TicksPerDay
    IN  Min(days_ago, (now2 - creation_date) \div TicksPerDay)

\* the test max_exec_days >= 0 in place of max_exec_days > 0
draws_exec_offset_from_zero(status, days_ago, now1, now2) ==
    /\ status \in {"closed_to_trading", "completed"}
    /\ max_exec_days(days_ago, now1, now2) >= 0

\* whether generate_dates makes its third randint call
draws_exec_offset(status, days_ago, now1, now2) ==
    /\ status \in {"closed_to_trading", "completed"}
    /\ max_exec_days(days_ago, now1, now2) > 0

\* generate_dates(status); exec_offset is <<the third randint's result>>, or
\* None when the call is not made
generate_dates(status, days_ago, value_date_offset, exec_offset, now1, now2) ==
    LET creation_date  == now1 - days_ago * TicksPerDay
        value_date     == creation_date + value_date_offset * TicksPerDay
        executed       == draws_exec_offset(status, days_ago, now1, now2)
        execution_date == creation_date + exec_offset[1] * TicksPerDay
    IN  <<strftime(creation_date),
          IF executed THEN strftime(execution_date) ELSE None,
          strftime(value_date)>>

\* the projection that ignores the direction
ProjectAlwaysBuy(market_direction, buy, sell) == <<buy, sell>>

\* the "amount" and the "counter-amount" side of a buy/sell pair of values
Project(market_direction, buy, sell) ==
    IF market_direction = "buy" THEN <<buy, sell>> ELSE <<sell, buy>>

\* generate_order(), d its random draws (and the float rounding), now1 and
\* now2 the two readings of datetime.now() inside generate_dates
generate_order(d, now1, now2) ==
    LET fx_order_type     == d.fx_order_type
        reference         == generate_reference(fx_order_type, d.suffix)
        market_direction  == d.market_direction
        status            == d.status
        pair              == generate_currency_pair(d.pair)
        buy_currency      == pair[1]
        sell_currency     == pair[2]
        rate              == generate_rate(buy_currency, sell_currency, d.variation)
        buy_amount_cents  == generate_amount_cents(d.amount)
        sell_amount_cents == int(FloatProduct(buy_amount_cents, rate, d.fp))
        amounts           == Project(market_direction, buy_amount_cents,
                                     sell_amount_cents)
        currencies        == Project(market_direction, buy_currency, sell_currency)
        dates             == generate_dates(status, d.days_ago, d.value_date_offset,
                                            d.exec_offset, now1, now2)
    IN  [id                   |-> reference,
         reference            |-> reference,
         fx_order_type        |-> fx_order_type,
         source               |-> "fx_order",
         creation_date        |-> dates[1],
         market_direction     |-> market_direction,
         buy_amount_cents     |-> buy_amount_cents,
         sell_amount_cents    |-> sell_amount_cents,
         buy_currency         |-> buy_currency,
         sell_currency        |-> sell_currency,
         amount_cents         |-> amounts[1],
         counter_amount_cents |-> amounts[2],
         currency             |-> currencies[1],
         counter_currency     |-> currencies[2],
         value_date           |-> dates[3],
         rate                 |-> rate,
         liquidity_provider   |-> LIQUIDITY_PROVIDERS[d.liquidity_provider],
         execution_date       |-> dates[2],
         status               |-> status]

-----------------------------------------------------------------------------
(* The inputs one call of generate_order is run on.  The draws of one part *)
(* of the record range over all their values while the others are held at  *)
(* one value: which part varies is the focus.                              *)

Focuses == {"reference", "rate", "amount", "dates"}

\* all of S when the focus is one of foci, else one value of S
Vary(focus, foci, S) == IF focus \in foci THEN S ELSE {CHOOSE x \in S : TRUE}

\* the pairs whose base rate is the largest and the smallest
ExtremePairs ==
    LET sell(p) == ExchangeRateGet(generate_currency_pair(p)[2])
        buy(p)  == ExchangeRateGet(generate_currency_pair(p)[1])
    IN  {p \in PairChoices : \A q \in PairChoices : sell(p) * buy(q) >= sell(q) * buy(p)}
        \cup {p \in PairChoices : \A q \in PairChoices : sell(p) * buy(q) <= sell(q) * buy(p)}

PairDraws(focus) ==
    IF focus = "rate" THEN PairChoices
    ELSE IF focus = "amount" THEN ExtremePairs
    ELSE {CHOOSE p \in PairChoices : TRUE}

\* the days "today" is taken from: 2026-11-06, 2028-02-29 and 2028-12-31
StartDays == {20763, 21243, 21549}

FirstClock == 20763 * TicksPerDay

\* the first clock reading of a call: any time of a start day for the dates,
\* else the time the call is made at
Now1Draws(focus) ==
    IF focus = "dates"
    THEN {n \in {day * TicksPerDay + t : day \in StartDays, t \in 0..(TicksPerDay - 1)} :
            n >= clock}
    ELSE {clock}

\* the second clock reading of a call: the clock does not run backwards
Now2Draws(focus, now1) ==
    IF focus = "dates" THEN now1..(now1 + MaxAdvance) ELSE {now1}

\* the random draws of one call, but for exec_offset
Draws(focus) ==
    {[fx_order_type      |-> fx_order_type,
      suffix             |-> suffix,
      market_direction   |-> market_direction,
      status             |-> status,
      pair               |-> pair,
      variation          |-> variation,
      amount             |-> amount,
      fp                 |-> fp,
      days_ago           |-> days_ago,
      value_date_offset  |-> value_date_offset,
      exec_offset        |-> None,
      liquidity_provider |-> liquidity_provider] :
        fx_order_type \in Vary(focus, {"reference"},
                               Choices(FX_ORDER_TYPES, FX_ORDER_TYPE_WEIGHTS)),
        suffix \in Vary(focus, {"reference"}, SuffixChoices),
        market_direction \in Vary(focus, {"reference", "rate", "amount"},
                                  Range(MARKET_DIRECTIONS)),
        status \in Vary(focus, {"dates", "batch"}, Choices(STATUSES, STATUS_WEIGHTS)),
        pair \in PairDraws(focus),
        variation \in Vary(focus, {"rate", "amount"}, VariationChoices),
        amount \in Vary(focus, {"amount"}, AmountChoices),
        fp \in Vary(focus, {"rate", "amount"}, {0, -1, 1}),
        days_ago \in Vary(focus, {"dates"}, DaysAgoChoices),
        value_date_offset \in Vary(focus, {"dates"}, ValueDateOffsetChoices),
        liquidity_provider \in Vary(focus, {"reference"}, ChoicePos(LIQUIDITY_PROVIDERS))}

\* the draw of exec_offset, when generate_dates makes it
ExecOffsetDraws(focus, status, days_ago, now1, now2) ==
    IF draws_exec_offset(status, days_ago, now1, now2)
    THEN {<<e>> : e \in Vary(focus, {"dates"},
                             RandInt(0, max_exec_days(days_ago, now1, now2)))}
    ELSE {None}

\* one call of generate_order, whose result becomes the next element of orders
Call(focus, now1) ==
    \E now2 \in Now2Draws(focus, now1), d0 \in Draws(focus) :
    \E exec_offset \in ExecOffsetDraws(focus, d0.status, d0.days_ago, now1, now2) :
    \E d \in {[d0 EXCEPT !.exec_offset = exec_offset]} :
        /\ orders' = Append(orders, generate_order(d, now1, now2))
        /\ inputs' = Append(inputs, [d |-> d, now1 |-> now1, now2 |-> now2])
        /\ clock' = now2

-----------------------------------------------------------------------------
(* main() *)

Init ==
    /\ clock = FirstClock
    /\ pc = "generate"
    /\ orders = << >>
    /\ inputs = << >>
    /\ df = None
    /\ file = None

\* a comprehension that ends with its first element
ComprehensionDoneEarly == Len(orders) >= 1

\* the list comprehension has run range(NUM_ROWS) out
ComprehensionDone == Len(orders) = NUM_ROWS

\* one iteration of [generate_order() for _ in range(NUM_ROWS)]
GenerateOrders ==
    /\ pc = "generate"
    /\ ~ComprehensionDone
    /\ \E now1 \in clock..(clock + MaxAdvance) : Call("batch", now1)
    /\ UNCHANGED <<pc, df, file>>

\* df = pd.DataFrame(orders)
CreateDataFrame ==
    /\ pc = "generate"
    /\ ComprehensionDone
    /\ df' = orders
    /\ pc' = "convert"
    /\ UNCHANGED <<clock, orders, inputs, file>>

\* the three pd.to_datetime(...).dt.date assignments
ConvertDates ==
    /\ pc = "convert"
    /\ df' = [i \in DOMAIN df |->
                [df[i] EXCEPT !.creation_date = to_date(@),
                              !.value_date = to_date(@),
                              !.execution_date = to_date(@)]]
    /\ pc' = "print"
    /\ UNCHANGED <<clock, orders, inputs, file>>

\* the sample and the statistics are printed
PrintStatistics ==
    /\ pc = "print"
    /\ pc' = "save"
    /\ UNCHANGED <<clock, orders, inputs, df, file>>

\* df.to_parquet(OUTPUT_FILE, ...)
SaveParquet ==
    /\ pc = "save"
    /\ file' = df
    /\ pc' = "size"
    /\ UNCHANGED <<clock, orders, inputs, df>>

\* the file size is read and printed; main returns
ReportOutput ==
    /\ pc = "size"
    /\ pc' = "done"
    /\ UNCHANGED <<clock, orders, inputs, df, file>>

\* an exception raised by the statement main is at: main catches nothing, so
\* it ends the run
Raise ==
    /\ pc \notin {"done", "raised"}
    /\ pc' = "raised"
    /\ UNCHANGED <<clock, orders, inputs, df, file>>

Next ==
    \/ GenerateOrders
    \/ CreateDataFrame
    \/ ConvertDates
    \/ PrintStatistics
    \/ SaveParquet
    \/ ReportOutput
    \/ Raise

Spec == Init /\ [][Next]_vars

-----------------------------------------------------------------------------
(* One call of generate_order, on every input of every focus *)

GenerateOrder ==
    /\ orders = << >>
    /\ \E focus \in Focuses : \E now1 \in Now1Draws(focus) : Call(focus, now1)
    /\ UNCHANGED <<pc, df, file>>

NextOrder == GenerateOrder

SpecOrder == Init /\ [][NextOrder]_vars

-----------------------------------------------------------------------------
(* Properties of the records.  orders[i] is the record of the i-th call and *)
(* inputs[i] what the call drew and read: d the random draws, now1 and now2 *)
(* the clock readings.                                                      *)

Executed == {"closed_to_trading", "completed"}

\* the day number "today" of the i-th call
Today(i) == inputs[i].now1 \div TicksPerDay

\* round(x) of a number x given in units of 10^-7: to the nearest integer,
\* ties to even
round(x) ==
    LET s  == Split(x)
        up == BigAdd(s.int, BigOfNat(1))
    IN  IF s.frac < 5000000 THEN s.int
        ELSE IF s.frac > 5000000 THEN up
        ELSE IF Hd(s.int) % 2 = 0 THEN s.int ELSE up

\* a and b differ by at most 1
BigNear(a, b) == BigLeq(a, BigAdd(b, <<1>>)) /\ BigLeq(b, BigAdd(a, <<1>>))

StatedRange(size_type) ==
    CASE size_type = "small"      -> [lo |-> 100, hi |-> 50000]
      [] size_type = "medium"     -> [lo |-> 50000, hi |-> 500000]
      [] size_type = "large"      -> [lo |-> 500000, hi |-> 5000000]
      [] size_type = "very_large" -> [lo |-> 5000000, hi |-> 100000000]

\* C2: buyAmountCents is 100 times a whole-unit amount within the stated
\* range of the chosen tier, hence a multiple of 100 between 10,000 and
\* 10,000,000,000.
C2_BuyAmountWithinTier ==
    \A i \in DOMAIN orders :
        LET stated == StatedRange(inputs[i].d.amount.size_type)
            cents  == orders[i].buy_amount_cents
            units  == BigDivMod(cents, 100)
        IN  /\ units.r = 0
            /\ BigLeq(BigOfNat(stated.lo), units.q)
            /\ BigLeq(units.q, BigOfNat(stated.hi))
            /\ BigLeq(BigOfNat(10000), cents)
            /\ BigLeq(cents, BigMulSmall(BigOfNat(100000000), 100))

\* C3: sellAmountCents differs by at most 1 from round(buyAmountCents *
\* rate), both for the product as the float the code computes and for the
\* exact product of the amount and the 7-decimal rate.
C3_SellAmountNearRounded ==
    \A i \in DOMAIN orders :
        LET buy   == orders[i].buy_amount_cents
            rate  == orders[i].rate
            exact == BigMul(buy, BigOfNat(rate))
            float == FloatProduct(buy, rate, inputs[i].d.fp)
        IN  /\ BigNear(orders[i].sell_amount_cents, round(exact))
            /\ BigNear(orders[i].sell_amount_cents, round(float))

\* a record whose sellAmountCents is one less than the rounded product, the
\* float product having lost a part of the exact one
C3_Witness ==
    \E i \in DOMAIN orders :
        LET exact == BigMul(orders[i].buy_amount_cents, BigOfNat(orders[i].rate))
        IN  /\ inputs[i].d.fp = -1
            /\ orders[i].sell_amount_cents # round(exact)
            /\ BigNear(orders[i].sell_amount_cents, round(exact))

C5_ValueDateAfterCreation ==
    \A i \in DOMAIN orders :
        LET days == DayOf(orders[i].value_date) - DayOf(orders[i].creation_date)
        IN  1 <= days /\ days <= MaxDays

\* an open order created today, on a 29th of February, whose valueDate is
\* 365 days later
C5_Witness ==
    \E i \in DOMAIN orders :
        /\ orders[i].status = "open"
        /\ inputs[i].d.days_ago = 0
        /\ SubSeq(orders[i].creation_date, 6, 10) = <<"0", "2", "-", "2", "9">>
        /\ DayOf(orders[i].value_date) - DayOf(orders[i].creation_date) = MaxDays

\* C6: buyCurrency and sellCurrency are two different members of
\* CURRENCIES; on the base-currency branch exactly one of them is EUR, on
\* the cross-pair branch neither is.
C6_CurrenciesDistinct ==
    \A i \in DOMAIN orders :
        LET buy  == orders[i].buy_currency
            sell == orders[i].sell_currency
        IN  /\ buy # sell
            /\ {buy, sell} \subseteq Range(CURRENCIES)
            /\ IF inputs[i].d.pair.involves_eur
               THEN (buy = "EUR") # (sell = "EUR")
               ELSE buy # "EUR" /\ sell # "EUR"

\* a cross pair
C6_Witness ==
    \E i \in DOMAIN orders :
        /\ ~inputs[i].d.pair.involves_eur
        /\ orders[i].buy_currency # "EUR"
        /\ orders[i].sell_currency # "EUR"

\* C7: when marketDirection is buy, currency, counterCurrency, amountCents
\* and counterAmountCents are buyCurrency, sellCurrency, buyAmountCents and
\* sellAmountCents; when it is sell they are sellCurrency, buyCurrency,
\* sellAmountCents and buyAmountCents.
C7_DirectionProjection ==
    \A i \in DOMAIN orders :
        LET o == orders[i]
        IN  /\ o.market_direction \in {"buy", "sell"}
            /\ o.market_direction = "buy" =>
                  /\ o.currency = o.buy_currency
                  /\ o.counter_currency = o.sell_currency
                  /\ o.amount_cents = o.buy_amount_cents
                  /\ o.counter_amount_cents = o.sell_amount_cents
            /\ o.market_direction = "sell" =>
                  /\ o.currency = o.sell_currency
                  /\ o.counter_currency = o.buy_currency
                  /\ o.amount_cents = o.sell_amount_cents
                  /\ o.counter_amount_cents = o.buy_amount_cents

\* a sell order, whose two amounts differ
C7_Witness ==
    \E i \in DOMAIN orders :
        /\ orders[i].market_direction = "sell"
        /\ orders[i].amount_cents = orders[i].sell_amount_cents
        /\ orders[i].amount_cents # orders[i].counter_amount_cents

\* seq starts with prefix
StartsWith(seq, prefix) ==
    Len(seq) >= Len(prefix) /\ SubSeq(seq, 1, Len(prefix)) = prefix

\* C8: the reference starts with "KCH-" if and only if orderType is chain,
\* and otherwise with "K-"; exactly 8 characters of A-Z and 0-9 follow the
\* prefix; the id of the record is its reference.
C8_ReferenceFormat ==
    \A i \in DOMAIN orders :
        LET o      == orders[i]
            prefix == IF o.fx_order_type = "chain" THEN <<"K", "C", "H", "-">>
                      ELSE <<"K", "-">>
        IN  /\ StartsWith(o.reference, <<"K", "C", "H", "-">>)
                  <=> (o.fx_order_type = "chain")
            /\ StartsWith(o.reference, prefix)
            /\ Len(o.reference) = Len(prefix) + 8
            /\ \A k \in (Len(prefix) + 1)..Len(o.reference) :
                  o.reference[k] \in Range(ALPHABET)
            /\ o.id = o.reference

\* a spot order, whose reference is "K-" and 8 characters
C8_Witness ==
    \E i \in DOMAIN orders :
        /\ orders[i].fx_order_type = "spot"
        /\ StartsWith(orders[i].reference, <<"K", "-">>)
        /\ Len(orders[i].reference) = 10

\* C9: two calls of generate_order that consume the same random draws
\* return the same record, dates included, whenever each of them runs.
C9_SeedDeterminism ==
    \A i, j \in DOMAIN orders :
        inputs[i].d = inputs[j].d => orders[i] = orders[j]

\* C10: the file is written only after all NUM_ROWS records were generated;
\* a run that ends in the generation leaves nothing written; what is handed
\* to to_parquet, and written, is exactly the NUM_ROWS records.
C10_NoPartialSuccess ==
    /\ pc \in {"save", "size", "done"} =>
          /\ Len(orders) = NUM_ROWS
          /\ Len(df) = NUM_ROWS
          /\ \A i \in DOMAIN df :
                df[i] = [orders[i] EXCEPT !.creation_date = to_date(@),
                                          !.value_date = to_date(@),
                                          !.execution_date = to_date(@)]
    /\ file # None => Len(orders) = NUM_ROWS /\ Len(file) = NUM_ROWS /\ file = df
    /\ Len(orders) < NUM_ROWS => file = None /\ df = None
    /\ pc = "done" => file # None

\* the run is over and the file holds the NUM_ROWS records
C10_Witness ==
    /\ pc = "done"
    /\ Len(file) = NUM_ROWS
    /\ Len(orders) = NUM_ROWS

====
